---- MODULE Spec2Model ----
(***************************************************************************)
(* A model of package ufile (src/ufile.go): Barename, LongestCommonPath,   *)
(* GetConfigFile, ReadTextFile, ReadUtf8Lines and WriteTextFile.           *)
(*                                                                         *)
(* A Go string is modelled as a sequence of one-character strings, so that *)
(* indexing, slicing and searching are computed as the code computes them. *)
(* Indexes returned by the strings.* helpers are 0-based and -1 when       *)
(* nothing is found, as in Go.                                             *)
(***************************************************************************)
EXTENDS Integers, Sequences, FiniteSets, TLC

VARIABLES
    goos,       \* runtime.GOOS of the build
    bpath,      \* Barename: the argument
    bare,       \* Barename: the result
    bpc,        \* Barename: "idle" | "start" | "done"
    paths,      \* LongestCommonPath: the argument slice (lower-cased in place)
    paths0,     \* LongestCommonPath: the slice as the caller passed it
    lcp,        \* LongestCommonPath: the result
    lpc,        \* LongestCommonPath: "idle" | "start" | "done"
    domain,     \* GetConfigFile: argument
    appname,    \* GetConfigFile: argument
    ext,        \* GetConfigFile: argument
    cfgOK,      \* os.UserConfigDir() returns no error
    homeOK,     \* os.UserHomeDir() returns no error
    fsys,       \* the filesystem: path -> "none" | "file" | "dir"
    cfgFile,    \* GetConfigFile: the path returned
    cfgFound,   \* GetConfigFile: the bool returned
    cpc,        \* GetConfigFile: "idle" | "start" | "done"
    lines,      \* WriteTextFile: argument
    disk,       \* the text file's content
    werr,       \* WriteTextFile: the error returned, "nil" | "err"
    wfailed,    \* a write to the underlying file failed during WriteTextFile
    rlines,     \* ReadTextFile: the lines returned
    rerr,       \* ReadTextFile: the error returned, "nil" | "err"
    tpc,        \* text file: "idle" | "start" | "written" | "read"
    idisk,      \* ReadUtf8Lines: the file's content
    ihandle,    \* ReadUtf8Lines: the os.File, "none" | "open" | "closed"
    ipos,       \* ReadUtf8Lines: the reader's offset into the file
    yielded,    \* ReadUtf8Lines: the (line, error) pairs yielded so far
    istopped,   \* ReadUtf8Lines: the consumer's yield returned false
    ipc         \* ReadUtf8Lines: "idle" | "start" | "loop" | "done"

varsB == <<bpath, bare, bpc>>
varsL == <<paths, paths0, lcp, lpc>>
varsC == <<domain, appname, ext, cfgOK, homeOK, fsys, cfgFile, cfgFound, cpc>>
varsT == <<lines, disk, werr, wfailed, rlines, rerr, tpc>>
varsI == <<idisk, ihandle, ipos, yielded, istopped, ipc>>
vars == <<goos, varsB, varsL, varsC, varsT, varsI>>

\* ------------------------------------------------------------------ bounds

\* Longest path string given to Barename.
MaxBareLen == 5
\* Longest path string given to LongestCommonPath.
MaxPathLen == 3
\* Most paths in one LongestCommonPath call.
MaxPaths == 3
\* Longest line given to WriteTextFile.
MaxLineLen == 2
\* Most lines given to WriteTextFile.
MaxLines == 2
\* Longest content of the file WriteTextFile and ReadTextFile start with.
MaxDiskLen == 3
\* Longest content of the file ReadUtf8Lines reads.
MaxFileLen == 4
\* Size of the bufio.Writer's buffer (bufio's default is 4096).
BufSize == 2
\* The calls of file.Write among which one may fail.
MaxWriteCalls == 5

\* ------------------------------------------------------------- characters

CR == "\r"
LF == "\n"
Slash == "/"
Backslash == "\\"
Dot == "."

BareChars == {"a", Dot, Slash, Backslash}
PathChars == {"a", "A", Slash, Backslash}
TextChars == {"a", CR, LF}
GOOS == {"linux", "windows", "darwin"}

SeqsUpTo(S, n) == UNION {[1..k -> S] : k \in 0..n}

Max(S) == CHOOSE x \in S : \A y \in S : y <= x
Min(S) == CHOOSE x \in S : \A y \in S : x <= y

\* ------------------------------------------------------- string primitives

\* Go's s[from:to].
Slice(s, from, to) == SubSeq(s, from + 1, to)

\* strings.LastIndexAny(s, chars)
LastIndexAny(s, chars) ==
    LET I == {k \in 1..Len(s) : s[k] \in chars}
    IN IF I = {} THEN -1 ELSE Max(I) - 1

\* strings.LastIndexByte(s, c)
LastIndexByte(s, c) == LastIndexAny(s, {c})

\* strings.HasPrefix(s, p)
HasPrefix(s, p) == Len(s) >= Len(p) /\ SubSeq(s, 1, Len(p)) = p

\* strings.ToLower(s), over the model's alphabet
LowerChar(c) == IF c = "A" THEN "a" ELSE c
ToLower(s) == [k \in 1..Len(s) |-> LowerChar(s[k])]

\* -------------------------------------------------------------- Barename

\* The for loop of Barename: cut at the last '.' until none is left.
RECURSIVE StripSuffixes(_)
StripSuffixes(p) ==
    LET i == LastIndexByte(p, Dot)
    IN IF i > -1 THEN StripSuffixes(Slice(p, 0, i)) ELSE p

\* A Barename whose loop body runs at most once ("if" for "for").
BarenameOneSuffix(path) ==
    LET i == LastIndexAny(path, {Slash, Backslash})
        p == IF i > -1 THEN Slice(path, i + 1, Len(path)) ELSE path
        j == LastIndexByte(p, Dot)
    IN IF j > -1 THEN Slice(p, 0, j) ELSE p

Barename(path) ==
    LET i == LastIndexAny(path, {Slash, Backslash})
    IN StripSuffixes(IF i > -1 THEN Slice(path, i + 1, Len(path)) ELSE path)

BarenameCall ==
    /\ bpc = "start"
    /\ bare' = Barename(bpath)
    /\ bpc' = "done"
    /\ UNCHANGED <<goos, bpath, varsL, varsC, varsT, varsI>>

\* ------------------------------------------------------ LongestCommonPath

\* os.PathSeparator
PathSeparator(os) == IF os = "windows" THEN Backslash ELSE Slash

\* utext.LongestCommonPrefix: the character-wise common prefix of all items.
LongestCommonPrefix(items) ==
    IF Len(items) = 0 THEN <<>>
    ELSE LET m == Min({Len(items[i]) : i \in 1..Len(items)})
             K == {k \in 0..m : \A i \in 1..Len(items) :
                        SubSeq(items[i], 1, k) = SubSeq(items[1], 1, k)}
         IN SubSeq(items[1], 1, Max(K))

\* The slice after the in-place lower-casing loop.
Lowered(ps, os) ==
    IF os \in {"windows", "darwin"} /\ Len(ps) > 1
    THEN [i \in 1..Len(ps) |-> ToLower(ps[i])]
    ELSE ps

LongestCommonPath(ps, os) ==
    LET caseInsensitive == os \in {"windows", "darwin"}
    IN IF Len(ps) = 0 THEN <<>>
       ELSE IF Len(ps) = 1
       THEN (IF caseInsensitive THEN ToLower(ps[1]) ELSE ps[1])
       ELSE LET prefix == LongestCommonPrefix(Lowered(ps, os))
            IN IF Len(prefix) > 1
               THEN LET i == LastIndexByte(prefix, PathSeparator(os))
                    IN IF i = -1 THEN <<>>
                       ELSE Slice(prefix, 0, IF i = 0 THEN 1 ELSE i)
               ELSE prefix

LongestCommonPathCall ==
    /\ lpc = "start"
    /\ lcp' = LongestCommonPath(paths, goos)
    /\ paths' = Lowered(paths, goos)
    /\ lpc' = "done"
    /\ UNCHANGED <<goos, paths0, varsB, varsC, varsT, varsI>>

\* --------------------------------------------------------- GetConfigFile

\* What os.UserConfigDir() and os.UserHomeDir() return when they succeed.
ConfigDir == <<Slash, "c">>
HomeDir == <<Slash, "h">>

\* filepath.Join: the non-empty elements, joined by the separator.
RECURSIVE Join(_, _)
Join(elems, sep) ==
    IF elems = <<>> THEN <<>>
    ELSE LET rest == Join(Tail(elems), sep)
         IN IF Head(elems) = <<>> THEN rest
            ELSE IF rest = <<>> THEN Head(elems)
            ELSE Head(elems) \o <<sep>> \o rest

\* PathExists: os.Stat succeeds.
PathExists(fs, path) == path \in DOMAIN fs /\ fs[path] # "none"

\* FileExists: os.Stat succeeds and the entry is no directory.
FileExists(fs, path) == path \in DOMAIN fs /\ fs[path] = "file"

\* appname + ext, ext given its leading dot.
ConfigName(app, ex) ==
    app \o (IF ~HasPrefix(ex, <<Dot>>) THEN <<Dot>> \o ex ELSE ex)

\* The filenames slice GetConfigFile builds.
ConfigFilenames(dom, app, ex, cOK, hOK, sep) ==
    LET filename == ConfigName(app, ex)
        fromConfig ==
            IF cOK
            THEN (IF dom # <<>> THEN <<Join(<<ConfigDir, dom, filename>>, sep)>>
                  ELSE <<>>) \o <<Join(<<ConfigDir, filename>>, sep)>>
            ELSE <<>>
        fromHome ==
            IF hOK
            THEN (IF dom # <<>>
                  THEN <<Join(<<HomeDir, <<Dot>> \o dom \o <<"-">> \o filename>>, sep)>>
                  ELSE <<>>) \o <<Join(<<HomeDir, <<Dot>> \o filename>>, sep)>>
            ELSE <<>>
        both == fromConfig \o fromHome
    IN IF Len(both) = 0
       THEN (IF dom # <<>> THEN <<dom \o <<"-">> \o filename>> ELSE <<>>)
            \o <<filename>>
            \o (IF dom # <<>> THEN <<<<Dot>> \o dom \o <<"-">> \o filename>>
                ELSE <<>>)
            \o <<<<Dot>> \o filename>>
       ELSE both

\* A GetConfigFile that probes with PathExists: a directory counts as found.
GetConfigFileAnyPath(dom, app, ex, cOK, hOK, fs, sep) ==
    LET filenames == ConfigFilenames(dom, app, ex, cOK, hOK, sep)
        hits == {k \in 1..Len(filenames) : PathExists(fs, filenames[k])}
    IN IF hits # {} THEN <<filenames[Min(hits)], TRUE>>
       ELSE <<filenames[1], FALSE>>

GetConfigFile(dom, app, ex, cOK, hOK, fs, sep) ==
    LET filename == ConfigName(app, ex)
        filenames == ConfigFilenames(dom, app, ex, cOK, hOK, sep)
        preferred ==
            IF ~cOK THEN <<>>
            ELSE IF dom # <<>> THEN Join(<<ConfigDir, dom, filename>>, sep)
            ELSE Join(<<ConfigDir, filename>>, sep)
        fallback ==
            IF ~hOK THEN <<>>
            ELSE IF dom # <<>>
            THEN Join(<<HomeDir, <<Dot>> \o dom \o <<"-">> \o filename>>, sep)
            ELSE Join(<<HomeDir, <<Dot>> \o filename>>, sep)
        hits == {k \in 1..Len(filenames) : FileExists(fs, filenames[k])}
    IN IF hits # {} THEN <<filenames[Min(hits)], TRUE>>
       ELSE IF preferred # <<>> THEN <<preferred, FALSE>>
       ELSE IF fallback # <<>> THEN <<fallback, FALSE>>
       ELSE IF dom # <<>> THEN <<dom \o <<"-">> \o filename, FALSE>>
       ELSE <<filename, FALSE>>

GetConfigFileCall ==
    /\ cpc = "start"
    /\ LET r == GetConfigFile(domain, appname, ext, cfgOK, homeOK, fsys,
                              PathSeparator(goos))
       IN cfgFile' = r[1] /\ cfgFound' = r[2]
    /\ cpc' = "done"
    /\ UNCHANGED <<goos, domain, appname, ext, cfgOK, homeOK, fsys>>
    /\ UNCHANGED <<varsB, varsL, varsT, varsI>>

\* ----------------------------------------------------------- ReadTextFile

\* bytes.ReplaceAll(raw, c, ""): every c removed.
RemoveAll(s, c) == SelectSeq(s, LAMBDA x : x # c)

\* bytes.TrimRight / strings.TrimRight: every trailing character of cutset
\* removed.
TrimRight(s, cutset) ==
    LET K == {k \in 0..Len(s) : \A j \in (k + 1)..Len(s) : s[j] \in cutset}
    IN SubSeq(s, 1, Min(K))

\* strings.Split(s, sep) for a one-character sep: never an empty slice.
RECURSIVE Split(_, _)
Split(s, sep) ==
    LET I == {k \in 1..Len(s) : s[k] = sep}
    IN IF I = {} THEN <<s>>
       ELSE <<SubSeq(s, 1, Min(I) - 1)>>
            \o Split(SubSeq(s, Min(I) + 1, Len(s)), sep)

\* The lines ReadTextFile returns for a file holding raw.
ReadTextFile(raw) == Split(TrimRight(RemoveAll(raw, CR), {LF}), LF)

ReadTextFileCall ==
    /\ tpc \in {"start", "written"}
    /\ \E readFails \in BOOLEAN :
        IF readFails
        THEN rlines' = <<>> /\ rerr' = "err"
        ELSE rlines' = ReadTextFile(disk) /\ rerr' = "nil"
    /\ tpc' = IF tpc = "start" THEN "read" ELSE "readback"
    /\ UNCHANGED <<goos, lines, disk, werr, wfailed>>
    /\ UNCHANGED <<varsB, varsL, varsC, varsI>>

\* ---------------------------------------------------------- WriteTextFile

\* The bufio.Writer over the file: buf is the buffered data, out the file's
\* content, err the writer's sticky error, calls the writes made to the file.
NewWriter == [buf |-> <<>>, out |-> <<>>, err |-> FALSE, calls |-> 0]

\* One write to the os.File: the failAt-th fails and writes nothing.
FileWrite(w, chunk, failAt) ==
    IF w.calls + 1 = failAt
    THEN [w EXCEPT !.calls = @ + 1, !.err = TRUE]
    ELSE [w EXCEPT !.calls = @ + 1, !.out = @ \o chunk]

\* bufio.Writer.Flush
BufFlush(w, failAt) ==
    IF w.err \/ w.buf = <<>> THEN w
    ELSE LET w2 == FileWrite(w, w.buf, failAt)
         IN IF w2.err THEN w2 ELSE [w2 EXCEPT !.buf = <<>>]

\* bufio.Writer.WriteString: data that does not fit is written through (an
\* empty buffer) or fills the buffer, which is flushed; the rest is buffered.
RECURSIVE BufWriteString(_, _, _)
BufWriteString(w, s, failAt) ==
    IF Len(s) > BufSize - Len(w.buf) /\ ~w.err
    THEN IF w.buf = <<>>
         THEN LET w2 == FileWrite(w, s, failAt)
              IN BufWriteString(w2, IF w2.err THEN s ELSE <<>>, failAt)
         ELSE LET n == BufSize - Len(w.buf)
                  w2 == BufFlush([w EXCEPT !.buf = @ \o SubSeq(s, 1, n)], failAt)
              IN BufWriteString(w2, SubSeq(s, n + 1, Len(s)), failAt)
    ELSE IF w.err THEN w
    ELSE [w EXCEPT !.buf = @ \o s]

\* The platform's end of line.
Eol(os) == IF os = "windows" THEN <<CR, LF>> ELSE <<LF>>

\* The for loop of WriteTextFile: [w, err] when it ends or returns.
RECURSIVE WriteLines(_, _, _, _)
WriteLines(w, ls, eol, failAt) ==
    IF ls = <<>> THEN [w |-> w, err |-> "nil"]
    ELSE LET w1 == BufWriteString(w, Head(ls), failAt)
         IN IF w1.err THEN [w |-> w1, err |-> "err"]
            ELSE LET w2 == BufWriteString(w1, eol, failAt)
                 IN IF w2.err THEN [w |-> w2, err |-> "err"]
                    ELSE WriteLines(w2, Tail(ls), eol, failAt)

\* WriteTextFile after os.Create succeeded: the loop, then out.Flush(), whose
\* result is dropped.
WriteTextFile(ls, os, failAt) ==
    LET r == WriteLines(NewWriter, ls, Eol(os), failAt)
    IN IF r.err = "err" THEN r
       ELSE [w |-> BufFlush(r.w, failAt), err |-> "nil"]

WriteTextFileCall ==
    /\ tpc = "start"
    /\ \E createFails \in BOOLEAN, failAt \in 0..MaxWriteCalls :
        IF createFails
        THEN werr' = "err" /\ wfailed' = FALSE /\ disk' = disk
        ELSE LET r == WriteTextFile(lines, goos, failAt)
             IN werr' = r.err /\ wfailed' = r.w.err /\ disk' = r.w.out
    /\ tpc' = "written"
    /\ UNCHANGED <<goos, lines, rlines, rerr>>
    /\ UNCHANGED <<varsB, varsL, varsC, varsI>>

\* ---------------------------------------------------------- ReadUtf8Lines

\* bufio.Reader.ReadString('\n') at offset pos of content: the data up to and
\* including the next newline, or the rest of the file with io.EOF.
ReadString(content, pos) ==
    LET I == {k \in (pos + 1)..Len(content) : content[k] = LF}
    IN IF I = {}
       THEN [line |-> SubSeq(content, pos + 1, Len(content)),
             pos |-> Len(content), eof |-> TRUE]
       ELSE [line |-> SubSeq(content, pos + 1, Min(I)),
             pos |-> Min(I), eof |-> FALSE]

\* A return that runs no deferred call: the file stays as it is.
ReturnWithoutClose(h) == h

\* A return from the iterator function: the deferred file.Close() runs.
Return(h) == IF h = "open" THEN "closed" ELSE h

Pair(line, err) == [line |-> line, err |-> err]

\* os.Open, and on failure the single yield and the return.
IterOpen ==
    /\ ipc = "start"
    /\ \E openFails \in BOOLEAN, more \in BOOLEAN :
        IF openFails
        THEN /\ yielded' = Append(yielded, Pair(<<>>, "EOPEN"))
             /\ istopped' = ~more
             /\ ihandle' = ihandle
             /\ ipc' = "done"
        ELSE /\ ihandle' = "open"
             /\ ipc' = "loop"
             /\ UNCHANGED <<yielded, istopped>>
    /\ UNCHANGED <<goos, idisk, ipos>>
    /\ UNCHANGED <<varsB, varsL, varsC, varsT>>

\* One pass of the loop in which a read error is yielded and the loop goes on.
IterNextKeepsGoing ==
    /\ ipc = "loop"
    /\ \E readFails \in BOOLEAN, more \in BOOLEAN :
        LET r == ReadString(idisk, ipos)
        IN IF readFails
           THEN /\ yielded' = Append(yielded, Pair(<<>>, "EIO"))
                /\ istopped' = ~more
                /\ UNCHANGED <<ipos, ihandle, ipc>>
           ELSE IF r.line = <<>> /\ r.eof
           THEN /\ ihandle' = Return(ihandle)
                /\ ipc' = "done"
                /\ UNCHANGED <<yielded, istopped, ipos>>
           ELSE /\ yielded' = Append(yielded, Pair(TrimRight(r.line, {CR, LF}), "nil"))
                /\ istopped' = ~more
                /\ ipos' = r.pos
                /\ IF ~more \/ r.eof
                   THEN ihandle' = Return(ihandle) /\ ipc' = "done"
                   ELSE UNCHANGED <<ihandle, ipc>>
    /\ UNCHANGED <<goos, idisk>>
    /\ UNCHANGED <<varsB, varsL, varsC, varsT>>

\* One pass of the loop: ReadString, then the read error yielded and the
\* return, or the break at the end of the stream, or the line yielded and,
\* when the consumer stops or the stream has ended, the return.
IterNext ==
    /\ ipc = "loop"
    /\ \E readFails \in BOOLEAN, more \in BOOLEAN :
        LET r == ReadString(idisk, ipos)
        IN IF readFails
           THEN /\ yielded' = Append(yielded, Pair(<<>>, "EIO"))
                /\ istopped' = ~more
                /\ ihandle' = Return(ihandle)
                /\ ipc' = "done"
                /\ UNCHANGED ipos
           ELSE IF r.line = <<>> /\ r.eof
           THEN /\ ihandle' = Return(ihandle)
                /\ ipc' = "done"
                /\ UNCHANGED <<yielded, istopped, ipos>>
           ELSE /\ yielded' = Append(yielded, Pair(TrimRight(r.line, {CR, LF}), "nil"))
                /\ istopped' = ~more
                /\ ipos' = r.pos
                /\ IF ~more \/ r.eof
                   THEN ihandle' = Return(ihandle) /\ ipc' = "done"
                   ELSE UNCHANGED <<ihandle, ipc>>
    /\ UNCHANGED <<goos, idisk>>
    /\ UNCHANGED <<varsB, varsL, varsC, varsT>>

\* ----------------------------------------------------- claims: Barename

Separators == {Slash, Backslash}

\* The longest suffix of p that holds no '/' and no '\'.
AfterLastSep(p) ==
    LET K == {k \in 0..Len(p) :
                \A j \in (Len(p) - k + 1)..Len(p) : p[j] \notin Separators}
    IN SubSeq(p, Len(p) - Max(K) + 1, Len(p))

\* The longest prefix of t that holds no '.'.
CutAtFirstDot(t) ==
    LET K == {k \in 0..Len(t) : \A j \in 1..k : t[j] # Dot}
    IN SubSeq(t, 1, Max(K))

Chars(s) == {s[k] : k \in 1..Len(s)}

BarenameShape ==
    /\ bare = CutAtFirstDot(AfterLastSep(bpath))
    /\ Chars(bare) \cap {Dot, Slash, Backslash} = {}
    /\ (Dot \notin Chars(AfterLastSep(bpath)) => bare = AfterLastSep(bpath))

\* C9 (as stated): Barename returns the text after the last '/' or '\' cut at
\* its first '.', never holding '.', '/' or '\', a dot-free final component
\* unchanged, and the result is empty only when the input is empty or
\* consists only of path separators.
C9_Original ==
    bpc = "done" =>
        /\ BarenameShape
        /\ (bare = <<>> => (bpath = <<>> \/ Chars(bpath) \subseteq Separators))

\* C9 (amended): Barename returns the text after the last '/' or '\' cut at
\* its first '.', never holding '.', '/' or '\', a dot-free final component
\* unchanged, and the result is empty exactly when the text after the last
\* separator is empty or starts with '.'.
C9_BarenameCutsAtFirstDot ==
    bpc = "done" =>
        /\ BarenameShape
        /\ (bare = <<>> <=>
                (AfterLastSep(bpath) = <<>> \/ AfterLastSep(bpath)[1] = Dot))

\* A directory with a dot, then a final component with two suffixes.
C9_Witness ==
    /\ bpc = "done"
    /\ bpath = <<Dot, Slash, "a", Dot, Dot>>
    /\ bare = <<"a">>

\* --------------------------------------------- claims: LongestCommonPath

\* r ends at a separator boundary of every path of ps.
AtBoundary(r, ps, sep) ==
    \/ r = <<>>
    \/ r = <<sep>> /\ \A i \in 1..Len(ps) : HasPrefix(ps[i], <<sep>>)
    \/ \A i \in 1..Len(ps) : ps[i] = r \/ HasPrefix(ps[i], r \o <<sep>>)

\* C3: for two or more paths on a case-sensitive platform the result ends at
\* a separator boundary of every input: it is empty, or the root separator
\* with every input starting with it, or every input equals it or continues
\* it with a separator; it is never part of a component name.
C3_EndsAtBoundary ==
    (lpc = "done" /\ goos = "linux" /\ Len(paths0) >= 2) =>
        AtBoundary(lcp, paths0, PathSeparator(goos))

\* C4: on a case-sensitive platform no whole-component prefix shared by all
\* inputs is strictly longer than the result; the empty list gives the empty
\* string and a single-element list gives its element.
C4_LongestWholeComponents ==
    (lpc = "done" /\ goos = "linux") =>
        /\ (Len(paths0) = 0 => lcp = <<>>)
        /\ (Len(paths0) = 1 => lcp = paths0[1])
        /\ (Len(paths0) >= 1 =>
                \A k \in 0..Len(paths0[1]) :
                    (/\ k > Len(lcp)
                     /\ \A i \in 1..Len(paths0) :
                            HasPrefix(paths0[i], SubSeq(paths0[1], 1, k)))
                    => ~AtBoundary(SubSeq(paths0[1], 1, k), paths0,
                                   PathSeparator(goos)))

\* ------------------------------------------------- claims: GetConfigFile

\* The candidates in priority order, as the claim lists them.
Candidates ==
    LET name == appname \o (IF ext # <<>> /\ ext[1] = Dot THEN ext
                            ELSE <<Dot>> \o ext)
        dotted == <<Dot>> \o name
        qualified == domain \o <<"-">> \o name
        inDir(dir, f) == dir \o <<Slash>> \o f
        c1 == IF cfgOK /\ domain # <<>>
              THEN <<inDir(ConfigDir, inDir(domain, name))>> ELSE <<>>
        c2 == IF cfgOK THEN <<inDir(ConfigDir, name)>> ELSE <<>>
        c3 == IF homeOK /\ domain # <<>>
              THEN <<inDir(HomeDir, <<Dot>> \o qualified)>> ELSE <<>>
        c4 == IF homeOK THEN <<inDir(HomeDir, dotted)>> ELSE <<>>
        cwd == IF domain # <<>>
               THEN <<qualified, name, <<Dot>> \o qualified, dotted>>
               ELSE <<name, dotted>>
    IN IF cfgOK \/ homeOK THEN c1 \o c2 \o c3 \o c4 ELSE cwd

IsFile(path) == path \in DOMAIN fsys /\ fsys[path] = "file"

\* C8: GetConfigFile returns found=true exactly when some candidate exists as
\* a file, and then the first such candidate in priority order; otherwise the
\* first candidate with found=false; the path is never empty.
C8_ConfigFilePriority ==
    cpc = "done" =>
        LET c == Candidates
            files == {k \in 1..Len(c) : IsFile(c[k])}
        IN /\ cfgFound <=> (files # {})
           /\ cfgFound => (cfgFile = c[Min(files)])
           /\ ~cfgFound => (cfgFile = c[1])
           /\ cfgFile # <<>>

\* Both directories resolve, the config-directory candidates are absent or a
\* directory, a current-directory name exists, and the home candidate wins.
C8_Witness ==
    /\ cpc = "done" /\ cfgOK /\ homeOK /\ domain # <<>> /\ appname # <<>>
    /\ cfgFound
    /\ HasPrefix(cfgFile, HomeDir)
    /\ \E p \in DOMAIN fsys : fsys[p] = "dir" /\ HasPrefix(p, ConfigDir)
    /\ \E p \in DOMAIN fsys : fsys[p] = "file" /\ p[1] # Slash

\* ---------------------------------------------------- claims: text files

NoNewline(ls) == \A k \in 1..Len(ls) : LF \notin Chars(ls[k])

\* C1: lines without newline characters, written by WriteTextFile with no
\* failure and read back by ReadTextFile, come back exactly as given, on the
\* LF and on the CRLF platform.
C1_RoundTrip ==
    (/\ tpc = "readback" /\ werr = "nil" /\ ~wfailed /\ rerr = "nil"
     /\ NoNewline(lines))
    => rlines = lines

\* Every line followed by the platform's terminator.
RECURSIVE Terminated(_, _)
Terminated(ls, eol) ==
    IF ls = <<>> THEN <<>> ELSE Head(ls) \o eol \o Terminated(Tail(ls), eol)

\* C5: WriteTextFile returns a non-nil error whenever a write to the file
\* failed, and nil only when every line and its terminator is in the file.
C5_WriteErrorsSurface ==
    tpc = "written" =>
        /\ (wfailed => werr = "err")
        /\ (werr = "nil" => disk = Terminated(lines, Eol(goos)))

\* s without its last character when that is a newline.
TrimOneNewline(s) ==
    IF s # <<>> /\ s[Len(s)] = LF THEN SubSeq(s, 1, Len(s) - 1) ELSE s

\* C10: ReadTextFile returns the content with carriage returns removed and
\* one trailing newline (if any) removed, split on newline.
C10_SingleTrailingNewline ==
    (tpc \in {"read", "readback"} /\ rerr = "nil") =>
        rlines = Split(TrimOneNewline(RemoveAll(disk, CR)), LF)

\* ---------------------------------------------------- claims: ReadUtf8Lines

Errors == {k \in 1..Len(yielded) : yielded[k].err # "nil"}
YieldedLines == [k \in 1..Len(yielded) |-> yielded[k].line]

\* C2: the lines of a run of ReadUtf8Lines consumed to its end with no error
\* are the lines ReadTextFile returns for the same content.
C2_IteratorAgreesWithReadTextFile ==
    (ipc = "done" /\ ~istopped /\ Errors = {}) =>
        YieldedLines = ReadTextFile(idisk)

\* C6: a run yields at most one pair with an error; that pair carries the
\* empty string and is the last pair of the run; after an open failure it is
\* the only pair; the error is never the end of the stream.
C6_OneFinalError ==
    /\ Cardinality(Errors) <= 1
    /\ \A k \in Errors :
        /\ yielded[k].line = <<>>
        /\ yielded[k].err \in {"EOPEN", "EIO"}
        /\ k = Len(yielded)
        /\ ipc = "done"
        /\ (yielded[k].err = "EOPEN" => Len(yielded) = 1)
    /\ (ipc = "done" /\ ihandle = "none") =>
            yielded = <<Pair(<<>>, "EOPEN")>>

\* Two lines, then a read error: the run has ended.
C6_Witness ==
    /\ ipc = "done"
    /\ Len(yielded) = 3
    /\ yielded[1].err = "nil" /\ yielded[2].err = "nil"
    /\ yielded[3] = Pair(<<>>, "EIO")

\* C7: when a run has ended, whichever way, its file is not open; once the
\* consumer has stopped the run has ended, so nothing more is yielded; a
\* failed open leaves no file.
C7_HandleClosedOnExit ==
    /\ (ipc = "done" => ihandle # "open")
    /\ (istopped => ipc = "done")
    /\ (ihandle = "open" => ipc = "loop")
    /\ (\E k \in Errors : yielded[k].err = "EOPEN") => ihandle = "none"

\* The consumer stopped after the second line, with content still unread.
C7_Witness ==
    /\ ipc = "done" /\ istopped
    /\ ihandle = "closed"
    /\ Len(yielded) = 2 /\ Errors = {}
    /\ ipos < Len(idisk)

\* --------------------------------------------------------- specifications

IdleB == bpath = <<>> /\ bare = <<>> /\ bpc = "idle"
IdleL == paths = <<>> /\ paths0 = <<>> /\ lcp = <<>> /\ lpc = "idle"
IdleC ==
    /\ domain = <<>> /\ appname = <<>> /\ ext = <<>>
    /\ cfgOK = FALSE /\ homeOK = FALSE /\ fsys = <<>>
    /\ cfgFile = <<>> /\ cfgFound = FALSE /\ cpc = "idle"
IdleT ==
    /\ lines = <<>> /\ disk = <<>> /\ werr = "nil" /\ wfailed = FALSE
    /\ rlines = <<>> /\ rerr = "nil" /\ tpc = "idle"
IdleI ==
    /\ idisk = <<>> /\ ihandle = "none" /\ ipos = 0 /\ yielded = <<>>
    /\ istopped = FALSE /\ ipc = "idle"

InitBarename ==
    /\ goos = "linux"
    /\ bpath \in SeqsUpTo(BareChars, MaxBareLen)
    /\ bare = <<>>
    /\ bpc = "start"
    /\ IdleL /\ IdleC /\ IdleT /\ IdleI

SpecBarename == InitBarename /\ [][BarenameCall]_vars

InitPath ==
    /\ goos \in GOOS
    /\ paths \in SeqsUpTo(SeqsUpTo(PathChars, MaxPathLen), MaxPaths)
    /\ paths0 = paths
    /\ lcp = <<>>
    /\ lpc = "start"
    /\ IdleB /\ IdleC /\ IdleT /\ IdleI

SpecPath == InitPath /\ [][LongestCommonPathCall]_vars

\* Every path GetConfigFile can name for these arguments.
ConfigUniverse(dom, app, ex) ==
    LET all == ConfigFilenames(dom, app, ex, TRUE, TRUE, Slash)
               \o ConfigFilenames(dom, app, ex, FALSE, FALSE, Slash)
    IN {all[k] : k \in 1..Len(all)}

InitConfig ==
    /\ goos = "linux"
    /\ domain \in {<<>>, <<"d">>}
    /\ appname \in {<<>>, <<"p">>}
    /\ ext \in {<<>>, <<"i">>, <<Dot, "i">>}
    /\ cfgOK \in BOOLEAN
    /\ homeOK \in BOOLEAN
    /\ fsys \in [ConfigUniverse(domain, appname, ext) -> {"none", "file", "dir"}]
    /\ cfgFile = <<>>
    /\ cfgFound = FALSE
    /\ cpc = "start"
    /\ IdleB /\ IdleL /\ IdleT /\ IdleI

SpecConfig == InitConfig /\ [][GetConfigFileCall]_vars

InitText ==
    /\ goos \in GOOS
    /\ lines \in SeqsUpTo(SeqsUpTo(TextChars, MaxLineLen), MaxLines)
    /\ disk \in SeqsUpTo(TextChars, MaxDiskLen)
    /\ werr = "nil"
    /\ wfailed = FALSE
    /\ rlines = <<>>
    /\ rerr = "nil"
    /\ tpc = "start"
    /\ IdleB /\ IdleL /\ IdleC /\ IdleI

NextText == WriteTextFileCall \/ ReadTextFileCall

SpecText == InitText /\ [][NextText]_vars

InitIter ==
    /\ goos = "linux"
    /\ idisk \in SeqsUpTo(TextChars, MaxFileLen)
    /\ ihandle = "none"
    /\ ipos = 0
    /\ yielded = <<>>
    /\ istopped = FALSE
    /\ ipc = "start"
    /\ IdleB /\ IdleL /\ IdleC /\ IdleT

NextIter == IterOpen \/ IterNext

SpecIter == InitIter /\ [][NextIter]_vars

====
